---- MODULE Spec2Model ----
(***************************************************************************)
(* Model of the token resolution scripts of ico_prediction_tfm:            *)
(*   datasets/checks/.ipynb_checkpoints/find_unresolved_tokens-checkpoint  *)
(*     (CoinGecko, CoinMarketCap, CoinPaprika, Foundico: variant "four")   *)
(*   datasets/scripts/find.py                                              *)
(*     (CoinGecko, CoinMarketCap, CryptoTotem: variant "three")            *)
(* Text is a sequence of one-character strings; None / NaN is NoneVal.     *)
(***************************************************************************)
EXTENDS Integers, Sequences, FiniteSets, TLC

---------------------------------------------------------------------------
(* Text helpers: Python str methods on ASCII text                          *)

NoneVal == <<"<None>">>

Lowers == <<"a","b","c","d","e","f","g","h","i","j","k","l","m",
            "n","o","p","q","r","s","t","u","v","w","x","y","z">>
Uppers == <<"A","B","C","D","E","F","G","H","I","J","K","L","M",
            "N","O","P","Q","R","S","T","U","V","W","X","Y","Z">>
Digits == {"0","1","2","3","4","5","6","7","8","9"}
Spaces == {" ", "\t", "\n"}

AlnumLower == {Lowers[i] : i \in DOMAIN Lowers} \cup Digits

LowerChar(c) ==
    IF \E i \in DOMAIN Uppers : Uppers[i] = c
    THEN Lowers[CHOOSE i \in DOMAIN Uppers : Uppers[i] = c]
    ELSE c

UpperChar(c) ==
    IF \E i \in DOMAIN Lowers : Lowers[i] = c
    THEN Uppers[CHOOSE i \in DOMAIN Lowers : Lowers[i] = c]
    ELSE c

StrLower(s) == [i \in 1..Len(s) |-> LowerChar(s[i])]

StrUpper(s) == [i \in 1..Len(s) |-> UpperChar(s[i])]

StrStrip(s) ==
    LET keep == {i \in 1..Len(s) : s[i] \notin Spaces}
    IN  IF keep = {} THEN <<>>
        ELSE SubSeq(s, CHOOSE i \in keep : \A j \in keep : i <= j,
                       CHOOSE i \in keep : \A j \in keep : i >= j)

IsAlnumLower(c) == c \in AlnumLower

\* text or "": None and the empty text are both falsy
OrEmpty(s) == IF s = NoneVal THEN <<>> ELSE s

\* bool(s) of an optional text
Truthy(s) == s # NoneVal /\ s # <<>>

\* s.strip().lower() then re.sub(r"[^a-z0-9]", "", s)
normalize_text_m(s) ==
    IF s = NoneVal THEN <<>>
    ELSE StrLower(StrStrip(s))

normalize_text(s) ==
    IF s = NoneVal THEN <<>>
    ELSE SelectSeq(StrLower(StrStrip(s)), IsAlnumLower)

---------------------------------------------------------------------------
(* similar(a, b): difflib.SequenceMatcher(None, a, b).ratio() = 2*M/T,     *)
(* M the total size of the matching blocks, as the pair <<2*M, T>>          *)

\* the blocks a[i..i+k-1] = b[j..j+k-1] inside a[alo..ahi], b[blo..bhi]
CommonBlocks(a, b, alo, ahi, blo, bhi) ==
    {m \in (alo..ahi) \X (blo..bhi) \X (1..(ahi - alo + 1)) :
        /\ m[1] + m[3] - 1 <= ahi
        /\ m[2] + m[3] - 1 <= bhi
        /\ \A d \in 0..(m[3] - 1) : a[m[1] + d] = b[m[2] + d]}

\* find_longest_match: longest, then earliest in a, then earliest in b
LongestMatch(a, b, alo, ahi, blo, bhi) ==
    LET C == CommonBlocks(a, b, alo, ahi, blo, bhi)
    IN  CHOOSE m \in C : \A o \in C :
            \/ m[3] > o[3]
            \/ m[3] = o[3] /\ m[1] < o[1]
            \/ m[3] = o[3] /\ m[1] = o[1] /\ m[2] <= o[2]

RECURSIVE MatchingSize(_, _, _, _, _, _)
MatchingSize(a, b, alo, ahi, blo, bhi) ==
    IF CommonBlocks(a, b, alo, ahi, blo, bhi) = {} THEN 0
    ELSE LET m == LongestMatch(a, b, alo, ahi, blo, bhi)
         IN  m[3] + MatchingSize(a, b, alo, m[1] - 1, blo, m[2] - 1)
                  + MatchingSize(a, b, m[1] + m[3], ahi, m[2] + m[3], bhi)

similar(a, b) ==
    IF Len(a) + Len(b) = 0 THEN <<1, 1>>
    ELSE <<2 * MatchingSize(a, b, 1, Len(a), 1, Len(b)), Len(a) + Len(b)>>

\* r > q and r >= pct/100 on ratios
RatioGT(r, q) == r[1] * q[2] > q[1] * r[2]

RatioAtLeastPct(r, pct) == r[1] * 100 >= pct * r[2]

NAME_FUZZY_THRESHOLD == 88

CPK_NAME_THRESHOLD == 80

\* max(seq, key = lambda c: similar(q, normalize_text(c[field]))): the
\* first element with the greatest score
BestBy(seq, q, field) ==
    LET score(i) == similar(q, normalize_text(seq[i][field]))
    IN  seq[CHOOSE i \in 1..Len(seq) :
                /\ \A j \in 1..Len(seq) : ~RatioGT(score(j), score(i))
                /\ \A j \in 1..(i - 1) : RatioGT(score(i), score(j))]

---------------------------------------------------------------------------
(* Column names probed by main, and the input tables                       *)

H_symbol_std == <<"s","y","m","b","o","l","_","s","t","d">>

H_symbol == <<"s","y","m","b","o","l">>

H_ticker == <<"t","i","c","k","e","r">>

H_ticker_symbol == <<"t","i","c","k","e","r","_","s","y","m","b","o","l">>

H_coin_ticker == <<"c","o","i","n","_","t","i","c","k","e","r">>

H_name_std == <<"n","a","m","e","_","s","t","d">>

H_name == <<"n","a","m","e">>

H_project_sp_name == <<"p","r","o","j","e","c","t"," ","n","a","m","e">>

H_project_name == <<"p","r","o","j","e","c","t","_","n","a","m","e">>

H_ico_name == <<"i","c","o","_","n","a","m","e">>

\* pick's candidate lists, in priority order
SymCandidates(v) ==
    IF v = "four"
    THEN <<H_symbol_std, H_symbol, H_ticker, H_ticker_symbol, H_coin_ticker>>
    ELSE <<H_symbol_std, H_symbol, H_ticker, H_ticker_symbol>>

NameCandidates ==
    <<H_name_std, H_name, H_project_sp_name, H_project_name, H_ico_name>>

\* df.columns.str.strip().str.lower()
NormalizeHeaders(cols) == [i \in 1..Len(cols) |-> StrLower(StrStrip(cols[i]))]

HasColumn(columns, c) == \E i \in 1..Len(columns) : columns[i] = c

\* pick(df, cols): the first candidate that is a column, else None
pick(columns, cols) ==
    IF \E k \in 1..Len(cols) : HasColumn(columns, cols[k])
    THEN cols[CHOOSE k \in 1..Len(cols) :
                /\ HasColumn(columns, cols[k])
                /\ \A j \in 1..(k - 1) : ~HasColumn(columns, cols[j])]
    ELSE NoneVal

\* sym_col with the coin_ticker fallback
SymCol(v, columns) ==
    LET c == pick(columns, SymCandidates(v))
    IN  IF c = NoneVal /\ HasColumn(columns, H_coin_ticker)
        THEN H_coin_ticker ELSE c

\* name_col with the coin_ticker fallback
NameCol(columns) ==
    LET c == pick(columns, NameCandidates)
    IN  IF c = NoneVal /\ HasColumn(columns, H_coin_ticker)
        THEN H_coin_ticker ELSE c

\* str(row.get(col)) if (col and pd.notna(row.get(col))) else ""
CellText(columns, row, col) ==
    IF col = NoneVal THEN <<>>
    ELSE LET v == row[CHOOSE i \in 1..Len(columns) : columns[i] = col]
         IN  IF v = NoneVal THEN <<>> ELSE v

DsNames == <<"zenodo_fahlenbrach", "icpsr_villanueva", "kaggle_yanmaksi">>

V_AB == <<"A","B">>

V_sp_ab == <<" ","a","b">>

V_cd == <<"c","d">>

V_dash == <<"-">>

V_Xy == <<"X","y">>

\* raw tables as read by pd.read_csv: headers and rows of cells
TabStd ==
    [cols |-> <<<<" ","S","y","m","b","o","l">>, <<"N","a","m","e">>>>,
     rows |-> << <<V_AB, V_Xy>>, <<V_sp_ab, NoneVal>> >>]

TabTicker ==
    [cols |-> <<<<"C","o","i","n","_","T","i","c","k","e","r"," ">>>>,
     rows |-> << <<V_cd>> >>]

TabProject ==
    [cols |-> <<<<"P","r","o","j","e","c","t"," ","N","a","m","e">>, <<"T","i","c","k","e","r"," ","S","y","m","b","o","l">>>>,
     rows |-> << <<V_Xy, V_AB>> >>]

TabBlank ==
    [cols |-> <<<<"n","a","m","e">>, <<"T","I","C","K","E","R">>>>,
     rows |-> << <<V_Xy, V_dash>>, <<NoneVal, NoneVal>> >>]

\* a file with a header line only
TabEmpty ==
    [cols |-> <<H_symbol, H_name>>,
     rows |-> << >>]

Tables == {TabStd, TabTicker, TabProject, TabBlank, TabEmpty}

---------------------------------------------------------------------------
(* Command line and remote responses                                       *)

\* largest --foundico-max-pages explored, and most input rows of one run
MaxPagesCfg == 2

MaxRows == 3

\* longest text given to normalize_text on its own, and the number of
\* times it is applied in a row
MaxLen == 3

MaxApply == 2

\* characters of each class: upper case, lower case, digit, punctuation,
\* white space
NormChars == {"B", "t", "2", "-", " "}

\* arguments of normalize_text: None or a text
NormInputs ==
    {NoneVal} \cup UNION {[1..n -> NormChars] : n \in 0..MaxLen}

V_key == <<"k">>

KeyValues == {NoneVal, <<>>, V_key}

\* args of the four-source script and of the three-source script
ArgsOf(v) ==
    IF v = "four"
    THEN [cmc_key : KeyValues, foundico_public : {NoneVal, V_key},
          foundico_private : {NoneVal, V_key},
          foundico_max_pages : 0..MaxPagesCfg]
    ELSE [cmc_key : KeyValues, foundico_public : {NoneVal},
          foundico_private : {NoneVal}, foundico_max_pages : {0}]

TotalRows(in) == Len(in[1].rows) + Len(in[2].rows) + Len(in[3].rows)

Inputs == {in \in [1..3 -> Tables] : TotalRows(in) <= MaxRows}

\* a request fails by raising, by a status other than 200, or by a body
\* that is not JSON
FailKinds == {"exc", "non200", "bad_json"}

E_cd1 == [id |-> "c1", symbol |-> <<"c","d">>, name |-> <<"Q","q">>]

E_cd2 == [id |-> "c2", symbol |-> <<"C","D">>, name |-> <<"X"," ","y">>]

E_zz == [id |-> "z1", symbol |-> <<"Z","Z">>, name |-> <<"C"," ","d">>]

E_ab == [id |-> "a1", symbol |-> <<"A","B">>, name |-> <<"x","y">>]

\* bodies of /coins/list
Catalogs == {<<>>, <<E_cd1, E_cd2, E_zz>>}

\* bodies of the search and map endpoints
Listings == {<<>>, <<E_zz>>, <<E_zz, E_ab>>}

I_zz == [id |-> "f3", name |-> <<"Z","z">>, ticker |-> <<"z","z">>]

I_xy == [id |-> "f2", name |-> <<"X","-","y">>, ticker |-> NoneVal]

I_ab == [id |-> "f1", name |-> <<"Q","q">>, ticker |-> <<"a","b"," ">>]

\* "data" of one page of Foundico's /icos/
FdPages == {<<>>, <<I_zz>>, <<I_zz, I_xy>>, <<I_xy, I_ab>>}

\* what the CryptoTotem result page contains
CtPages == {{}, {"ico", "html"}, {"ico", "/ico/"}, {"ico", "html", "/ico/"}}

Responses(bodies) ==
    {[kind |-> k, body |-> <<>>] : k \in FailKinds}
        \cup {[kind |-> "ok", body |-> b] : b \in bodies}

CtResponses ==
    {[kind |-> k, body |-> {}] : k \in FailKinds \ {"bad_json"}}
        \cup {[kind |-> "ok", body |-> b] : b \in CtPages}

---------------------------------------------------------------------------
(* State                                                                   *)

VARIABLES
    variant,        \* "four" | "three": which script runs
    args,           \* parsed command line
    inputs,         \* the three tables, in dict order
    pc,             \* where main is: "rows", a resolver, "done", "crashed"
    ds,             \* dataset being iterated (1..3), 4 after the last
    ri,             \* iterrows position in it (0-based index of next row)
    cur,            \* the row being processed
    rows_out,       \* the accumulation list
    out_file,       \* rows of the CSV written by to_csv
    out_writes,     \* number of to_csv calls
    coins_list,     \* CoinGeckoResolver._coins_list
    by_symbol,      \* CoinGeckoResolver._by_symbol
    by_name,        \* CoinGeckoResolver._by_name
    cache_symbol,   \* CMCResolver.cache_symbol
    cache_name,     \* CMCResolver.cache_name
    page,           \* FoundicoResolver.find's loop variable
    calls,          \* resolvers invoked for the current row, in order
    net,            \* requests and sleeps issued for the current row
    res,            \* results returned for the current row
    fd_last,        \* outcome of the current find's latest Foundico page
    fd_unslept,     \* a Foundico fetch not yet followed by SLEEP_FD
    fd_seen,        \* "data" of the pages the current find has scanned
    list_fetches,   \* requests to CG_LIST_URL so far
    cmc_hist,       \* key -> result of its first remote map-by-symbol
    found_rows,     \* rows for which some resolver reported found
    err,            \* the uncaught exception that ended the run
    fn_arg,         \* the argument normalize_text is applied to on its own
    fn_rets         \* what it returned, applied again to its own result

vars == <<variant, args, inputs, pc, ds, ri, cur, rows_out, out_file,
          out_writes, coins_list, by_symbol, by_name, cache_symbol,
          cache_name, page, calls, net, res, fd_last, fd_unslept, fd_seen,
          list_fetches, cmc_hist, found_rows, err, fn_arg, fn_rets>>

static == <<variant, args, inputs>>

cgState == <<coins_list, by_symbol, by_name, list_fetches>>

cmcState == <<cache_symbol, cache_name, cmc_hist>>

fdState == <<page, fd_last, fd_unslept, fd_seen>>

outState == <<out_file, out_writes>>

iter == <<ds, ri, cur>>

fnState == <<fn_arg, fn_rets>>

NoRow == [ds |-> 0, idx |-> 0, sym |-> <<>>, nam |-> <<>>]

EmptyMap == <<>>

MainInit ==
    /\ variant \in {"four", "three"}
    /\ args \in ArgsOf(variant)
    /\ inputs \in Inputs
    /\ pc = "rows"
    /\ ds = 1
    /\ ri = 0
    /\ cur = NoRow
    /\ rows_out = <<>>
    /\ out_file = <<>>
    /\ out_writes = 0
    /\ coins_list = NoneVal
    /\ by_symbol = EmptyMap
    /\ by_name = EmptyMap
    /\ cache_symbol = EmptyMap
    /\ cache_name = EmptyMap
    /\ page = 0
    /\ calls = <<>>
    /\ net = <<>>
    /\ res = EmptyMap
    /\ fd_last = "none"
    /\ fd_unslept = FALSE
    /\ fd_seen = <<>>
    /\ list_fetches = 0
    /\ cmc_hist = EmptyMap
    /\ found_rows = {}
    /\ err = "none"

\* a run of main: normalize_text is only called from inside it
Init ==
    /\ MainInit
    /\ fn_arg = NoneVal
    /\ fn_rets = <<>>

---------------------------------------------------------------------------
(* main: the loop over datasets and rows, and the cascade                  *)

ResolverOrder(v) ==
    IF v = "four" THEN <<"cg", "cmc", "cpk", "fdi">> ELSE <<"cg", "cmc", "ct">>

Ev(name) == <<name, 0>>

Found(method, id) == [found |-> TRUE, method |-> method, id |-> id]

NotFound(method) == [found |-> FALSE, method |-> method, id |-> "-"]

FdEnabled(a) == Truthy(a.foundico_public) /\ Truthy(a.foundico_private)

\* "cmc_found": False if args.cmc_key else "skipped_no_key"
CmcFlag_m(key) == "False"

CmcFlag(key) == IF Truthy(key) THEN "False" ELSE "skipped_no_key"

\* "foundico_found": False if fdi.enabled else "skipped_no_keys"
FdFlag(a) == IF FdEnabled(a) THEN "False" ELSE "skipped_no_keys"

\* the record appended for a row whose symbol normalizes to ""
MissingRecord(v, c) ==
    IF v = "four"
    THEN [source_dataset |-> DsNames[c.ds], row_index |-> c.idx,
          symbol |-> c.sym, name |-> c.nam,
          coingecko_found |-> "False", cmc_found |-> "False",
          coinpaprika_found |-> "False", foundico_found |-> "False",
          note |-> "missing_symbol"]
    ELSE [source_dataset |-> DsNames[c.ds], row_index |-> c.idx,
          symbol |-> c.sym, name |-> c.nam,
          coingecko_found |-> "False", cmc_found |-> "False",
          cryptototem_found |-> "False",
          note |-> "missing_symbol"]

\* the record appended when the whole cascade reported not found
NotFoundRecord(v, a, c) ==
    IF v = "four"
    THEN [source_dataset |-> DsNames[c.ds], row_index |-> c.idx,
          symbol |-> c.sym, name |-> c.nam,
          coingecko_found |-> "False", cmc_found |-> CmcFlag(a.cmc_key),
          coinpaprika_found |-> "False", foundico_found |-> FdFlag(a),
          note |-> "not_found_anywhere"]
    ELSE [source_dataset |-> DsNames[c.ds], row_index |-> c.idx,
          symbol |-> c.sym, name |-> c.nam,
          coingecko_found |-> "False", cmc_found |-> CmcFlag(a.cmc_key),
          cryptototem_found |-> "False",
          note |-> "not_found_anywhere"]

\* if not sym_std: ... continue
IsMissingSymbol_m(sym) == sym = <<>>

IsMissingSymbol(sym) == normalize_text(sym) = <<>>

\* where main goes once the row is read: the missing-symbol branch ends in
\* continue, otherwise the first resolver is called
RowEntry_m(v, sym) == ResolverOrder(v)[1]

RowEntry(v, sym) ==
    IF IsMissingSymbol(sym) THEN "rows" ELSE ResolverOrder(v)[1]

\* if res["found"]: continue
ShortCircuit_m(x) == FALSE

ShortCircuit(x) == x.found

\* the resolver main calls after r reported not found, "" after the last
NextResolver(v, r) ==
    LET order == ResolverOrder(v)
        i == CHOOSE k \in 1..Len(order) : order[k] = r
    IN  IF i < Len(order) THEN order[i + 1] ELSE ""

\* main's handling of resolver r returning x after issuing events evs
Returned(r, x, evs) ==
    /\ res' = res @@ (r :> x)
    /\ net' = net \o evs
    /\ found_rows' = IF x.found THEN found_rows \cup {<<cur.ds, cur.idx>>}
                     ELSE found_rows
    /\ IF ShortCircuit(x)
       THEN /\ pc' = "rows"
            /\ UNCHANGED <<rows_out, calls>>
       ELSE IF NextResolver(variant, r) = ""
       THEN /\ pc' = "rows"
            /\ rows_out' = Append(rows_out, NotFoundRecord(variant, args, cur))
            /\ UNCHANGED calls
       ELSE /\ pc' = NextResolver(variant, r)
            /\ calls' = Append(calls, NextResolver(variant, r))
            /\ UNCHANGED rows_out

\* an exception nobody catches ends the run, before any output is written
Crash(cause, evs) ==
    /\ pc' = "crashed"
    /\ err' = cause
    /\ net' = net \o evs
    /\ UNCHANGED <<res, found_rows, rows_out, calls>>

\* for ds_name, df in inputs.items(): past the last row of a dataset
NextDataset ==
    /\ pc = "rows"
    /\ ds <= 3
    /\ ri >= Len(inputs[ds].rows)
    /\ ds' = ds + 1
    /\ ri' = 0
    /\ UNCHANGED <<static, fnState, pc, cur, rows_out, outState, cgState, cmcState,
                   fdState, calls, net, res, found_rows, err>>

\* for idx, row in df.iterrows(): up to the first resolver call
StartRow ==
    /\ pc = "rows"
    /\ ds <= 3
    /\ ri < Len(inputs[ds].rows)
    /\ LET columns == NormalizeHeaders(inputs[ds].cols)
           row == inputs[ds].rows[ri + 1]
           sym == CellText(columns, row, SymCol(variant, columns))
           nam == CellText(columns, row, NameCol(columns))
           c == [ds |-> ds, idx |-> ri, sym |-> sym, nam |-> nam]
       IN  /\ cur' = c
           /\ rows_out' = IF IsMissingSymbol(sym)
                          THEN Append(rows_out, MissingRecord(variant, c))
                          ELSE rows_out
           /\ pc' = RowEntry(variant, sym)
           /\ calls' = IF RowEntry(variant, sym) = "rows" THEN <<>>
                       ELSE <<RowEntry(variant, sym)>>
    /\ ri' = ri + 1
    /\ net' = <<>>
    /\ res' = EmptyMap
    /\ fd_last' = "none"
    /\ fd_seen' = <<>>
    /\ UNCHANGED <<static, fnState, ds, outState, cgState, cmcState, page,
                   fd_unslept, found_rows, err>>

\* the loop over inputs.items() is exhausted: d is past the last dataset
LoopFinished_m(d) == d >= 3

LoopFinished(d) == d > 3

\* out_df.to_csv(args.out)
WriteOutput ==
    /\ pc = "rows"
    /\ LoopFinished(ds)
    /\ out_file' = rows_out
    /\ out_writes' = out_writes + 1
    /\ pc' = "done"
    /\ UNCHANGED <<static, fnState, iter, rows_out, cgState, cmcState, fdState,
                   calls, net, res, found_rows, err>>

---------------------------------------------------------------------------
(* CoinGeckoResolver                                                       *)

\* setdefault(key, []).append(c) for every c of list, in order
RECURSIVE IndexInto(_, _, _)
IndexInto(idx, list, field) ==
    IF list = <<>> THEN idx
    ELSE LET c == Head(list)
             k == normalize_text(c[field])
             nxt == IF k = <<>> THEN idx
                    ELSE IF k \in DOMAIN idx
                    THEN [idx EXCEPT ![k] = Append(@, c)]
                    ELSE idx @@ (k :> <<c>>)
         IN  IndexInto(nxt, Tail(list), field)

\* if self._coins_list is None
NeedsLoad_m(list) == list = NoneVal \/ list = <<>>

NeedsLoad(list) == list = NoneVal

\* _load_list when the list is not loaded yet: raise_for_status and
\* r.json() are outside any try
CGLoadList ==
    /\ pc = "cg"
    /\ NeedsLoad(coins_list)
    /\ list_fetches' = list_fetches + 1
    /\ \E r \in Responses(Catalogs) :
         IF r.kind = "ok"
         THEN /\ coins_list' = r.body
              /\ by_symbol' = IndexInto(by_symbol, r.body, "symbol")
              /\ by_name' = IndexInto(by_name, r.body, "name")
              /\ net' = net \o <<Ev("cg_list"), Ev("sleep_cg")>>
              /\ UNCHANGED <<pc, err, res, found_rows, rows_out, calls>>
         ELSE /\ Crash("cg_list", <<Ev("cg_list")>>)
              /\ UNCHANGED <<coins_list, by_symbol, by_name>>
    /\ UNCHANGED <<static, fnState, iter, outState, cmcState, fdState>>

\* which step of find answers: the symbol index, the name index, or the
\* remote search
CgStep_m(bs, bn, sym, nam) ==
    LET sym_std == normalize_text(sym)
        nam_std == normalize_text(nam)
    IN  IF nam_std # <<>> /\ nam_std \in DOMAIN bn THEN "name"
        ELSE IF sym_std # <<>> /\ sym_std \in DOMAIN bs THEN "symbol"
        ELSE IF Truthy(sym) \/ Truthy(nam) THEN "search"
        ELSE "none"

CgStep(bs, bn, sym, nam) ==
    LET sym_std == normalize_text(sym)
        nam_std == normalize_text(nam)
    IN  IF sym_std # <<>> /\ sym_std \in DOMAIN bs THEN "symbol"
        ELSE IF nam_std # <<>> /\ nam_std \in DOMAIN bn THEN "name"
        ELSE IF Truthy(sym) \/ Truthy(nam) THEN "search"
        ELSE "none"

\* the candidate returned for an index hit
CgIndexBest(bs, bn, sym, nam) ==
    LET sym_std == normalize_text(sym)
        nam_std == normalize_text(nam)
    IN  IF CgStep(bs, bn, sym, nam) = "symbol"
        THEN IF nam_std # <<>> THEN BestBy(bs[sym_std], nam_std, "name")
             ELSE bs[sym_std][1]
        ELSE bn[nam_std][1]

\* the result of the search fallback on response r; failures are caught
CgSearchResult(sym, nam, r) ==
    IF r.kind = "ok" /\ r.body # <<>>
    THEN Found("search",
               (IF Truthy(nam) THEN BestBy(r.body, normalize_text(nam), "name")
                ELSE BestBy(r.body, normalize_text(sym), "symbol")).id)
    ELSE NotFound("none")

\* find once the list is loaded
CGFind ==
    /\ pc = "cg"
    /\ ~NeedsLoad(coins_list)
    /\ LET step == CgStep(by_symbol, by_name, cur.sym, cur.nam)
       IN  CASE step \in {"symbol", "name"} ->
                  Returned("cg",
                      Found(step, CgIndexBest(by_symbol, by_name,
                                              cur.sym, cur.nam).id), <<>>)
             [] step = "search" ->
                  \E r \in Responses(Listings) :
                      Returned("cg", CgSearchResult(cur.sym, cur.nam, r),
                               <<Ev("cg_search"), Ev("sleep_cg")>>)
             [] OTHER -> Returned("cg", NotFound("none"), <<>>)
    /\ UNCHANGED <<static, fnState, iter, outState, cgState, cmcState, fdState, err>>

---------------------------------------------------------------------------
(* CMCResolver                                                             *)

\* key = sym.upper() of sym = (symbol or "").strip()
CmcSymbolKey(symbol) == StrUpper(StrStrip(OrEmpty(symbol)))

\* key = nam.lower() of nam = (name or "").strip()
CmcNameKey(name) == StrLower(StrStrip(OrEmpty(name)))

\* the outcome of the map-by-symbol request: the first entry wins
CmcSymbolResult(r) ==
    IF r.kind = "ok" /\ r.body # <<>>
    THEN Found("symbol", r.body[1].id)
    ELSE NotFound("none")

\* the outcome of the full-listing request: best name, if similar enough
CmcNameResult(nam, r) ==
    IF r.kind = "ok" /\ r.body # <<>>
    THEN LET nam_std == normalize_text(nam)
             best == BestBy(r.body, nam_std, "name")
         IN  IF RatioAtLeastPct(similar(nam_std, normalize_text(best.name)),
                                NAME_FUZZY_THRESHOLD)
             THEN Found("name_fuzzy", best.id)
             ELSE NotFound("none")
    ELSE NotFound("none")

\* self.cache[key] = out, only for a found result
Cached_any_m(cache, key, out) == (key :> out) @@ cache

Cached_m(cache, key, out) == cache

Cached(cache, key, out) ==
    IF out.found THEN (key :> out) @@ cache ELSE cache

\* what the remote lookups of a key have produced so far: the first found
\* result, or not found while none has found it
Noted(hist, key, out) ==
    IF key \in DOMAIN hist /\ hist[key].found THEN hist
    ELSE (key :> out) @@ hist

\* step 2 of find, after the symbol step did not return, the symbol step
\* having issued events evs and left the lookup history hist
CmcNameStep(evs, hist) ==
    LET nam == StrStrip(OrEmpty(cur.nam))
        key == CmcNameKey(cur.nam)
    IN  IF nam = <<>>
        THEN /\ Returned("cmc", NotFound(IF variant = "four" THEN "-" ELSE "none"), evs)
             /\ UNCHANGED <<cache_name>>
             /\ cmc_hist' = hist
        ELSE IF variant = "four"
        THEN /\ Returned("cmc", NotFound("name_not_supported"), evs)
             /\ UNCHANGED <<cache_name>>
             /\ cmc_hist' = hist
        ELSE IF key \in DOMAIN cache_name
        THEN /\ Returned("cmc", cache_name[key], evs)
             /\ UNCHANGED <<cache_name>>
             /\ cmc_hist' = hist
        ELSE \E r \in Responses(Listings) :
               LET out == CmcNameResult(nam, r)
               IN  /\ Returned("cmc", out,
                         evs \o <<Ev("cmc_map_all"), Ev("sleep_cmc")>>)
                   /\ cache_name' = Cached(cache_name, key, out)
                   /\ cmc_hist' = hist

\* if not self.api_key: is a key configured
CmcHasKey_m(api_key) == api_key # NoneVal

CmcHasKey(api_key) == Truthy(api_key)

CMCFind ==
    /\ pc = "cmc"
    /\ LET sym == StrStrip(OrEmpty(cur.sym))
           key == CmcSymbolKey(cur.sym)
       IN  IF ~CmcHasKey(args.cmc_key)
           THEN /\ Returned("cmc", NotFound("no_api_key"), <<>>)
                /\ UNCHANGED cmcState
           ELSE IF sym = <<>>
           THEN /\ CmcNameStep(<<>>, cmc_hist)
                /\ UNCHANGED cache_symbol
           ELSE IF key \in DOMAIN cache_symbol
           THEN /\ Returned("cmc", cache_symbol[key], <<>>)
                /\ UNCHANGED cmcState
           ELSE \E r \in Responses(Listings) :
                  LET out == CmcSymbolResult(r)
                      evs == <<Ev("cmc_map_symbol"), Ev("sleep_cmc")>>
                  IN  /\ cache_symbol' = Cached(cache_symbol, key, out)
                      /\ IF out.found
                         THEN /\ Returned("cmc", out, evs)
                              /\ UNCHANGED cache_name
                              /\ cmc_hist' = Noted(cmc_hist, key, out)
                         ELSE /\ CmcNameStep(evs, Noted(cmc_hist, key, out))
    /\ UNCHANGED <<static, fnState, iter, outState, cgState, fdState, err>>

---------------------------------------------------------------------------
(* CoinPaprikaResolver (four-source script)                                *)

\* step 1: any currency returned by the symbol search is accepted
CpkSymbolResult(sym, r) ==
    IF r.kind = "ok" /\ r.body # <<>>
    THEN LET sym_std == normalize_text(sym)
             exact == SelectSeq(r.body,
                        LAMBDA x : normalize_text(x.symbol) = sym_std)
         IN  Found("symbol_search",
                   (IF exact # <<>> THEN exact[1] ELSE r.body[1]).id)
    ELSE NotFound("-")

\* step 2: the best name, if its similarity is at least 0.80
CpkNameResult(nam, r) ==
    IF r.kind = "ok" /\ r.body # <<>>
    THEN LET nam_std == normalize_text(nam)
             best == BestBy(r.body, nam_std, "name")
         IN  IF RatioAtLeastPct(similar(nam_std, normalize_text(best.name)),
                                CPK_NAME_THRESHOLD)
             THEN Found("name_fuzzy", best.id)
             ELSE NotFound("-")
    ELSE NotFound("-")

CPKFind ==
    /\ pc = "cpk"
    /\ LET sym == StrStrip(OrEmpty(cur.sym))
           nam == StrStrip(OrEmpty(cur.nam))
           e1 == IF sym # <<>> THEN <<Ev("cpk_symbol"), Ev("sleep_cpk")>>
                 ELSE <<>>
           e2 == <<Ev("cpk_name"), Ev("sleep_cpk")>>
       IN  \E r1 \in Responses(Listings) :
             IF sym # <<>> /\ CpkSymbolResult(sym, r1).found
             THEN Returned("cpk", CpkSymbolResult(sym, r1), e1)
             ELSE IF nam # <<>>
             THEN \E r2 \in Responses(Listings) :
                    Returned("cpk", CpkNameResult(nam, r2), e1 \o e2)
             ELSE Returned("cpk", NotFound("-"), e1)
    /\ UNCHANGED <<static, fnState, iter, outState, cgState, cmcState, fdState, err>>

---------------------------------------------------------------------------
(* FoundicoResolver (four-source script)                                   *)

\* the scan of one page: the first item with the exact ticker returns at
\* once, else the page's best name (best_item: no item or one) decides
RECURSIVE FdScan(_, _, _, _, _)
FdScan(items, sym_std, nam_std, best_score, best_item) ==
    IF items = <<>>
    THEN IF best_item # <<>>
            /\ RatioAtLeastPct(best_score, NAME_FUZZY_THRESHOLD)
         THEN Found("name_fuzzy", best_item[1].id)
         ELSE NotFound("-")
    ELSE LET item == Head(items)
             name_i == StrStrip(OrEmpty(item.name))
             sym_i == StrStrip(OrEmpty(item.ticker))
             score == similar(nam_std, normalize_text(name_i))
         IN  IF sym_std # <<>> /\ normalize_text(sym_i) = sym_std
             THEN Found("symbol_exact", item.id)
             ELSE IF nam_std # <<>> /\ RatioGT(score, best_score)
             THEN FdScan(Tail(items), sym_std, nam_std, score, <<item>>)
             ELSE FdScan(Tail(items), sym_std, nam_std, best_score, best_item)

\* best_name = None; best_score = 0.0, set anew for every page
FdPageResult_m(items, symbol, name) ==
    LET fuzzy == FdScan(items, <<>>, normalize_text(name), <<0, 1>>, <<>>)
    IN  IF fuzzy.found THEN fuzzy
        ELSE FdScan(items, normalize_text(symbol), normalize_text(name),
                    <<0, 1>>, <<>>)

FdPageResult(items, symbol, name) ==
    FdScan(items, normalize_text(symbol), normalize_text(name), <<0, 1>>,
           <<>>)

\* for page in range(1, self.max_pages + 1): is there a page after p
MorePages_m(p, max_pages) == p <= max_pages

MorePages(p, max_pages) == p + 1 <= max_pages

\* find up to the first iteration of the loop
FoundicoFind ==
    /\ pc = "fdi"
    /\ IF ~FdEnabled(args)
       THEN /\ Returned("fdi", NotFound("foundico_disabled"), <<>>)
            /\ UNCHANGED page
       ELSE IF ~MorePages(0, args.foundico_max_pages)
       THEN /\ Returned("fdi", NotFound("-"), <<>>)
            /\ UNCHANGED page
       ELSE /\ page' = 1
            /\ pc' = "fdi_page"
            /\ UNCHANGED <<res, net, found_rows, rows_out, calls>>
    /\ UNCHANGED <<static, fnState, iter, outState, cgState, cmcState, fd_last,
                   fd_unslept, fd_seen, err>>

\* does SLEEP_FD follow the fetch whose page gave result x
SleepsAfterPage(x) == ~x.found

\* one iteration of the loop: post_foundico and r.json() are outside any
\* try, so a failed request or a body that is not JSON ends the run
FoundicoPage ==
    /\ pc = "fdi_page"
    /\ \E r \in Responses(FdPages) :
         LET fetch == <<<<"fd_icos", page>>>>
             x == FdPageResult(r.body, cur.sym, cur.nam)
         IN  CASE r.kind \in {"exc", "bad_json"} ->
                    /\ Crash(IF r.kind = "exc" THEN "foundico_request"
                             ELSE "foundico_json", fetch)
                    /\ fd_last' = r.kind
                    /\ fd_unslept' = TRUE
                    /\ UNCHANGED <<page, fd_seen>>
               [] r.kind = "non200" ->
                    /\ Returned("fdi", NotFound("foundico_http"), fetch)
                    /\ fd_last' = "non200"
                    /\ fd_unslept' = TRUE
                    /\ UNCHANGED <<page, fd_seen, err>>
               [] r.kind = "ok" /\ r.body = <<>> ->
                    /\ Returned("fdi", NotFound("-"), fetch)
                    /\ fd_last' = "empty"
                    /\ fd_unslept' = TRUE
                    /\ fd_seen' = Append(fd_seen, r.body)
                    /\ UNCHANGED <<page, err>>
               [] r.kind = "ok" /\ r.body # <<>> /\ x.found ->
                    /\ Returned("fdi", x, fetch)
                    /\ fd_last' = "match"
                    /\ fd_unslept' = ~SleepsAfterPage(x)
                    /\ fd_seen' = Append(fd_seen, r.body)
                    /\ UNCHANGED <<page, err>>
               [] OTHER ->
                    /\ fd_last' = "no_match"
                    /\ fd_unslept' = ~SleepsAfterPage(x)
                    /\ fd_seen' = Append(fd_seen, r.body)
                    /\ IF MorePages(page, args.foundico_max_pages)
                       THEN /\ page' = page + 1
                            /\ net' = net \o fetch \o <<Ev("sleep_fd")>>
                            /\ UNCHANGED <<pc, res, found_rows, rows_out,
                                           calls, err>>
                       ELSE /\ Returned("fdi", NotFound("-"),
                                        fetch \o <<Ev("sleep_fd")>>)
                            /\ UNCHANGED <<page, err>>
    /\ UNCHANGED <<static, fnState, iter, outState, cgState, cmcState>>

---------------------------------------------------------------------------
(* cryptototem_exists (three-source script)                                *)

\* "ico" in html and "html" in html, then "/ico/" in html; a failed
\* request or a status other than 200 gives False
cryptototem_exists(query, r) ==
    /\ query # <<>>
    /\ r.kind = "ok"
    /\ {"ico", "html", "/ico/"} \subseteq r.body

\* ct_found = cryptototem_exists(sym) or
\*            (cryptototem_exists(nam) if nam else False)
CTFind ==
    /\ pc = "ct"
    /\ \E r1 \in CtResponses :
         LET call == <<Ev("ct_search"), Ev("sleep_ct")>>
             e1 == IF cur.sym # <<>> THEN call ELSE <<>>
         IN  IF cryptototem_exists(cur.sym, r1)
             THEN Returned("ct", Found("ct", "-"), e1)
             ELSE IF cur.nam # <<>>
             THEN \E r2 \in CtResponses :
                    Returned("ct",
                        IF cryptototem_exists(cur.nam, r2)
                        THEN Found("ct", "-") ELSE NotFound("ct"),
                        e1 \o call)
             ELSE Returned("ct", NotFound("ct"), e1)
    /\ UNCHANGED <<static, fnState, iter, outState, cgState, cmcState, fdState, err>>

---------------------------------------------------------------------------

Next ==
    \/ NextDataset
    \/ StartRow
    \/ WriteOutput
    \/ CGLoadList
    \/ CGFind
    \/ CMCFind
    \/ CPKFind
    \/ FoundicoFind
    \/ FoundicoPage
    \/ CTFind

Spec == Init /\ [][Next]_vars

---------------------------------------------------------------------------
(* normalize_text on its own: applied to an argument, then to its result   *)

InitNorm ==
    /\ MainInit
    /\ variant = "three"
    /\ args.cmc_key = NoneVal
    /\ inputs = [i \in 1..3 |-> TabEmpty]
    /\ fn_arg \in NormInputs
    /\ fn_rets = <<>>

NormalizeApply ==
    /\ Len(fn_rets) < MaxApply
    /\ fn_rets' = Append(fn_rets,
                     normalize_text(IF fn_rets = <<>> THEN fn_arg
                                    ELSE fn_rets[Len(fn_rets)]))
    /\ UNCHANGED <<static, fn_arg, pc, iter, rows_out, outState, cgState,
                   cmcState, fdState, calls, net, res, found_rows, err>>

NextNorm == NormalizeApply

SpecNorm == InitNorm /\ [][NextNorm]_vars

---------------------------------------------------------------------------
(* Properties                                                              *)

Range(f) == {f[x] : x \in DOMAIN f}

\* positions in rows of the records of row idx of dataset d
RecordsOf(rows, d, idx) ==
    {k \in 1..Len(rows) : /\ rows[k].source_dataset = DsNames[d]
                          /\ rows[k].row_index = idx}

RowsOfInput == {<<d, i>> \in (1..3) \X (0..(MaxRows + 1)) :
                    i < Len(inputs[d].rows)}

\* a row has been read and is the latest one
InRow == cur # NoRow

\* rows read before the current position of the loop
Processed(d, i) == d < ds \/ (d = ds /\ i < ri)

FdFetched(log) == SelectSeq(log, LAMBDA e : e[1] = "fd_icos")

\* C1: for a row with a non-empty normalized symbol the resolvers are
\* invoked in the fixed priority order (cg, cmc, cpk, fdi; in the
\* three-source script cg, cmc, ct), each only after all earlier ones
\* returned not found, and none after one reported found
C1_CascadeOrder ==
    LET order == ResolverOrder(variant)
    IN  /\ Len(calls) <= Len(order)
        /\ \A i \in 1..Len(calls) : calls[i] = order[i]
        /\ DOMAIN res \subseteq Range(calls)
        /\ \A i \in 1..Len(calls) :
              i < Len(calls) => /\ calls[i] \in DOMAIN res
                                /\ ~res[calls[i]].found
        /\ (InRow /\ normalize_text(cur.sym) # <<>>) => calls # <<>>

\* a row resolved by the second resolver: the later ones were not invoked
C1_Witness ==
    /\ variant = "four"
    /\ calls = <<"cg", "cmc">>
    /\ "cmc" \in DOMAIN res
    /\ res["cmc"].found
    /\ pc = "rows"

\* C2: every input row yields no record if some resolver reported found
\* for it and otherwise exactly one, never two; after a complete run
\* every row has exactly zero or one
C2_ZeroOrOneRecord ==
    \A r \in RowsOfInput :
        LET n == Cardinality(RecordsOf(rows_out, r[1], r[2]))
        IN  /\ n <= 1
            /\ r \in found_rows => n = 0
            /\ (pc = "done" \/ (Processed(r[1], r[2]) /\ pc = "rows"))
                  => (n = 0 <=> r \in found_rows)

\* a complete run with a resolved row, a missing-symbol row and a row
\* not found anywhere
C2_Witness ==
    /\ pc = "done"
    /\ found_rows # {}
    /\ \E k \in 1..Len(rows_out) : rows_out[k].note = "missing_symbol"
    /\ \E k \in 1..Len(rows_out) : rows_out[k].note = "not_found_anywhere"

\* C3: a row whose symbol is absent or normalizes to "" invokes no
\* resolver and issues no request (not even the catalog load), and
\* exactly one record, with note missing_symbol, is appended for it
C3_MissingSymbolShortCircuit ==
    (InRow /\ normalize_text(cur.sym) = <<>>) =>
        /\ calls = <<>>
        /\ net = <<>>
        /\ res = EmptyMap
        /\ pc \in {"rows", "done"}
        /\ Cardinality(RecordsOf(rows_out, cur.ds, cur.idx)) = 1
        /\ \A k \in RecordsOf(rows_out, cur.ds, cur.idx) :
              rows_out[k].note = "missing_symbol"

\* the first row of a run has the symbol "-", which normalizes to "";
\* the catalog is still not loaded
C3_Witness ==
    /\ InRow
    /\ cur.sym = V_dash
    /\ list_fetches = 0
    /\ Len(rows_out) = 1

\* C4: once the catalog has loaded, no failure of a resolver's own lookup
\* ends the run with an uncaught error
C4_LookupErrorsRecovered == coins_list # NoneVal => pc # "crashed"

\* C5: every row written reports an unconfigured source distinctly
C5_SkippedReportedDistinctly ==
    \A k \in 1..Len(out_file) :
        /\ ~Truthy(args.cmc_key) => out_file[k].cmc_found = "skipped_no_key"
        /\ (variant = "four" /\ ~FdEnabled(args))
              => out_file[k].foundico_found = "skipped_no_keys"

\* C6: a row with a non-empty normalized symbol that every resolver
\* reported not found yields exactly one record, with note
\* not_found_anywhere, whose cmc_found is "skipped_no_key" exactly when no
\* CMC key was supplied and False otherwise
C6_NotFoundAnywhere ==
    (/\ InRow
     /\ normalize_text(cur.sym) # <<>>
     /\ DOMAIN res = Range(ResolverOrder(variant))
     /\ \A r \in DOMAIN res : ~res[r].found)
    => /\ Cardinality(RecordsOf(rows_out, cur.ds, cur.idx)) = 1
       /\ \A k \in RecordsOf(rows_out, cur.ds, cur.idx) :
             /\ rows_out[k].note = "not_found_anywhere"
             /\ rows_out[k].cmc_found =
                   (IF args.cmc_key \in {NoneVal, <<>>}
                    THEN "skipped_no_key" ELSE "False")

\* all resolvers reported not found, without a CMC key
C6_Witness ==
    /\ InRow
    /\ DOMAIN res = Range(ResolverOrder(variant))
    /\ \A r \in DOMAIN res : ~res[r].found
    /\ args.cmc_key = NoneVal
    /\ rows_out # <<>>
    /\ rows_out[Len(rows_out)].cmc_found = "skipped_no_key"

\* C7: the catalog list is requested at most once in a run, also when the
\* list it returns is empty, and once it is loaded no step changes the
\* symbol index, the name index or the list
C7_CatalogLoadedOnce ==
    [][/\ list_fetches' <= 1
       /\ coins_list # NoneVal =>
             /\ by_symbol' = by_symbol
             /\ by_name' = by_name
             /\ coins_list' = coins_list
             /\ list_fetches' = list_fetches]_vars

\* a find that did not request the list, after an empty list was loaded
C7_Witness ==
    /\ coins_list = <<>>
    /\ list_fetches = 1
    /\ "cg" \in DOMAIN res
    /\ Ev("cg_list") \notin Range(net)

\* a find on a loaded, non-empty catalog that hit an index
C7_WitnessIndexed ==
    /\ coins_list # NoneVal
    /\ coins_list # <<>>
    /\ "cg" \in DOMAIN res
    /\ res["cg"].method = "symbol"
    /\ Ev("cg_list") \notin Range(net)

\* the uppercased symbol CMCResolver.find looks up for the current row
CurCmcKey == StrUpper(StrStrip(cur.sym))

\* C8 as stated: with a key configured, once a remote map-by-symbol
\* lookup has completed for a symbol, a later find with the same
\* uppercased symbol issues no remote map-by-symbol request
C8_NoRepeatAfterAnyLookup ==
    [][(/\ pc = "cmc"
        /\ Truthy(args.cmc_key)
        /\ CurCmcKey \in DOMAIN cmc_hist)
       => Ev("cmc_map_symbol") \notin Range(net')]_vars

\* C8 amended: with a key configured, once a remote map-by-symbol lookup
\* has found a symbol, a later find with the same uppercased symbol
\* issues no request at all and returns that same result; and a find
\* whose lowercased name is in the name cache issues no listing request
C8_NoRepeatAfterFound ==
    [][(/\ pc = "cmc"
        /\ Truthy(args.cmc_key))
       => /\ (CurCmcKey \in DOMAIN cmc_hist /\ cmc_hist[CurCmcKey].found)
                => /\ net' = net
                   /\ res'["cmc"] = cmc_hist[CurCmcKey]
          /\ StrLower(StrStrip(cur.nam)) \in DOMAIN cache_name
                => Ev("cmc_map_all") \notin Range(net')]_vars

\* CoinMarketCap answered from the symbol cache: the row's symbol differs
\* in case and spacing from the one first looked up
C8_Witness ==
    /\ "cmc" \in DOMAIN res
    /\ res["cmc"].found
    /\ cur.sym = V_sp_ab
    /\ CurCmcKey \in DOMAIN cmc_hist
    /\ cmc_hist[CurCmcKey].found
    /\ Ev("cmc_map_symbol") \notin Range(net)

\* C9: one find fetches pages 1, 2, ... in increasing order, at most
\* max_pages of them, and after an empty page or a status other than 200
\* it has returned found = false without another fetch
C9_BoundedPaging ==
    LET fetched == FdFetched(net)
    IN  /\ \A i \in 1..Len(fetched) : fetched[i][2] = i
        /\ Len(fetched) <= args.foundico_max_pages
        /\ fetched # <<>> => FdEnabled(args)
        /\ pc = "fdi_page" => /\ page = Len(fetched) + 1
                              /\ page <= args.foundico_max_pages
        /\ fd_last \in {"empty", "non200"}
              => /\ pc # "fdi_page"
                 /\ "fdi" \in DOMAIN res
                 /\ ~res["fdi"].found

\* the find stopped at an empty first page although two were allowed
C9_Witness ==
    /\ fd_last = "empty"
    /\ Len(FdFetched(net)) = 1
    /\ args.foundico_max_pages >= 2
    /\ "fdi" \in DOMAIN res

\* the find used up all its pages
C9_WitnessAllPages ==
    /\ fd_last = "no_match"
    /\ Len(FdFetched(net)) = args.foundico_max_pages
    /\ args.foundico_max_pages >= 2
    /\ "fdi" \in DOMAIN res

\* C10: every Foundico page fetch is followed by SLEEP_FD before control
\* leaves the resolver or the next page is fetched
C10_DelayAfterEveryFetch == ~fd_unslept

\* C10, its weaker half: no Foundico fetch is issued while the previous
\* one is still not followed by SLEEP_FD
C10_NoBackToBackFetch == pc = "fdi_page" => ~fd_unslept

\* the header "Ticker Symbol" once stripped and lowercased
H_ticker_sp_symbol == <<"t","i","c","k","e","r"," ","s","y","m","b","o","l">>

\* C11: for a table whose headers are "Project Name" and "Ticker Symbol"
\* the picker selects "ticker symbol" as the symbol column and
\* "project name" as the name column, so a row of it with a ticker is read
\* with that ticker and is not treated as missing_symbol
C11_ProjectHeadersPicked ==
    (InRow /\ inputs[cur.ds].cols = TabProject.cols) =>
        LET columns == NormalizeHeaders(inputs[cur.ds].cols)
        IN  /\ SymCol(variant, columns) = H_ticker_sp_symbol
            /\ NameCol(columns) = H_project_sp_name
            /\ cur.sym = V_AB
            /\ \A k \in RecordsOf(rows_out, cur.ds, cur.idx) :
                  rows_out[k].note # "missing_symbol"

\* C12: on a resolver constructed without an API key (None or ""),
\* CMCResolver.find returns found = false with method "no_api_key" whatever
\* the symbol and name, issues no request and leaves both caches unchanged
C12_NoKeyNoLookup ==
    [][(pc = "cmc" /\ args.cmc_key \in {NoneVal, <<>>})
       => /\ "cmc" \in DOMAIN res'
          /\ ~res'["cmc"].found
          /\ res'["cmc"].method = "no_api_key"
          /\ net' = net
          /\ cache_symbol' = cache_symbol
          /\ cache_name' = cache_name]_vars

\* find has returned no_api_key for a row with a symbol and a name, the
\* key being the empty string
C12_Witness ==
    /\ args.cmc_key = <<>>
    /\ "cmc" \in DOMAIN res
    /\ res["cmc"].method = "no_api_key"
    /\ cur.sym # <<>>
    /\ cur.nam # <<>>
    /\ Ev("cmc_map_symbol") \notin Range(net)
    /\ cache_symbol = EmptyMap
    /\ cache_name = EmptyMap

IsPrefix(a, b) == Len(a) <= Len(b) /\ SubSeq(b, 1, Len(a)) = a

\* the output exists only in a finished run, written once from the whole
\* accumulation list after the last row of the last dataset
OutputOnlyAtEnd ==
    /\ out_writes <= 1
    /\ out_writes = 1 <=> pc = "done"
    /\ out_writes = 0 => out_file = <<>>
    /\ out_writes = 1 => /\ ds > 3
                         /\ out_file = rows_out
                         /\ \A r \in RowsOfInput : Processed(r[1], r[2])
    /\ pc = "crashed" => out_writes = 0

\* C13: the output is written at most once, exactly once in a run that
\* finishes, and only after every row of every dataset has been processed;
\* a run ended by a fatal error has written nothing; and every step leaves
\* the records accumulated so far in place, only ever appending
C13_WrittenOnceAtEnd ==
    /\ []OutputOnlyAtEnd
    /\ [][/\ IsPrefix(rows_out, rows_out')
          /\ Len(rows_out') <= Len(rows_out) + 1
          /\ out_writes' # out_writes =>
                /\ out_writes = 0
                /\ pc = "rows"
                /\ ~(ds <= 3)
                /\ rows_out' = rows_out]_vars

\* a finished run that wrote two or more records
C13_Witness ==
    /\ pc = "done"
    /\ out_writes = 1
    /\ Len(out_file) >= 2
    /\ out_file = rows_out

\* a run ended by a fatal error after it had accumulated a record
C13_WitnessCrash ==
    /\ pc = "crashed"
    /\ rows_out # <<>>
    /\ out_writes = 0
    /\ out_file = <<>>

\* C14: normalize_text is idempotent, its result holds only lower case
\* ASCII letters and digits, and None or the empty text gives the empty text
C14_NormalizeIdempotent ==
    /\ \A k \in 1..Len(fn_rets) : \A i \in 1..Len(fn_rets[k]) :
          \/ \E j \in DOMAIN Lowers : fn_rets[k][i] = Lowers[j]
          \/ fn_rets[k][i] \in Digits
    /\ \A k \in 2..Len(fn_rets) : fn_rets[k] = fn_rets[1]
    /\ (fn_arg \in {NoneVal, <<>>} /\ fn_rets # <<>>) => fn_rets[1] = <<>>

\* "B-2" gave "b2", and "b2" gave "b2" again
C14_Witness ==
    /\ fn_arg = <<"B", "-", "2">>
    /\ fn_rets = << <<"b", "2">>, <<"b", "2">> >>

\* None gave the empty text
C14_WitnessNone ==
    /\ fn_arg = NoneVal
    /\ Len(fn_rets) >= 1
    /\ fn_rets[1] = <<>>

\* C15: a find of CoinGeckoResolver called by main on the loaded catalog
\* answers "symbol" whenever the normalized symbol is a key of the symbol
\* index, else "name" whenever the normalized name is a key of the name
\* index; it requests the remote search only when both miss; it reports
\* not found only when both miss and the search was requested and failed,
\* had a status other than 200 or held no coins; and every response with
\* coins is accepted as "search", whatever the similarity
C15_LookupOrder ==
    [][(pc = "cg" /\ coins_list # NoneVal) =>
         LET symHit == normalize_text(cur.sym) \in DOMAIN by_symbol
             namHit == normalize_text(cur.nam) \in DOMAIN by_name
             searched == Ev("cg_search") \in Range(net')
             x == res'["cg"]
         IN  /\ "cg" \in DOMAIN res'
             /\ symHit => (x.found /\ x.method = "symbol")
             /\ (~symHit /\ namHit) => (x.found /\ x.method = "name")
             /\ searched => (~symHit /\ ~namHit)
             /\ ~x.found => (~symHit /\ ~namHit /\ searched)
             /\ (x.found /\ searched) => x.method = "search"
             /\ (~symHit /\ ~namHit) =>
                   /\ \E r \in Responses(Listings) :
                         x = CgSearchResult(cur.sym, cur.nam, r)
                   /\ \A r \in Responses(Listings) :
                         CgSearchResult(cur.sym, cur.nam, r).found
                            <=> (r.kind = "ok" /\ r.body # <<>>)]_vars

\* the symbol and the name of the row are both keys of their index, and
\* the symbol index answered without a search
C15_Witness ==
    /\ "cg" \in DOMAIN res
    /\ normalize_text(cur.sym) \in DOMAIN by_symbol
    /\ normalize_text(cur.nam) \in DOMAIN by_name
    /\ res["cg"].method = "symbol"
    /\ Ev("cg_search") \notin Range(net)

\* the symbol misses and the name index answered
C15_WitnessName ==
    /\ "cg" \in DOMAIN res
    /\ normalize_text(cur.sym) \notin DOMAIN by_symbol
    /\ res["cg"].method = "name"
    /\ Ev("cg_search") \notin Range(net)

\* both miss on a catalog that is not empty, and the search returned a
\* coin that has nothing in common with the row
C15_WitnessSearch ==
    /\ coins_list # NoneVal
    /\ coins_list # <<>>
    /\ cur.sym = V_sp_ab
    /\ "cg" \in DOMAIN res
    /\ res["cg"] = Found("search", E_zz.id)

\* both miss and the search gave nothing
C15_WitnessNotFound ==
    /\ coins_list # NoneVal
    /\ "cg" \in DOMAIN res
    /\ ~res["cg"].found
    /\ Ev("cg_search") \in Range(net)

\* every entry of both caches is a found result
CachesHoldFound ==
    /\ \A k \in DOMAIN cache_symbol : cache_symbol[k].found
    /\ \A k \in DOMAIN cache_name : cache_name[k].found

\* the cache keeps every entry it has, with the same result
KeepsEntries(cache, cache2) ==
    \A k \in DOMAIN cache : k \in DOMAIN cache2 /\ cache2[k] = cache[k]

\* C16: every entry of cache_symbol and of cache_name is a found result;
\* a cache changes only by gaining, under the key of the find, the found
\* result that find returns, so a lookup that found nothing, failed or had
\* a status other than 200 caches nothing; no entry is removed or replaced;
\* and a find whose symbol key is in cache_symbol, or whose name key is in
\* cache_name, reports found, so that main goes to the next row without
\* calling a later resolver or appending a record
C16_CachesOnlyFound ==
    /\ []CachesHoldFound
    /\ [][/\ KeepsEntries(cache_symbol, cache_symbol')
          /\ KeepsEntries(cache_name, cache_name')
          /\ cache_symbol' # cache_symbol =>
                /\ pc = "cmc"
                /\ res'["cmc"].found
                /\ res'["cmc"].method = "symbol"
                /\ cache_symbol' = (CurCmcKey :> res'["cmc"]) @@ cache_symbol
          /\ cache_name' # cache_name =>
                /\ pc = "cmc"
                /\ res'["cmc"].found
                /\ res'["cmc"].method = "name_fuzzy"
                /\ cache_name' =
                      (StrLower(StrStrip(cur.nam)) :> res'["cmc"]) @@ cache_name
          /\ (/\ pc = "cmc"
              /\ Truthy(args.cmc_key)
              /\ \/ CurCmcKey \in DOMAIN cache_symbol
                 \/ /\ variant = "three"
                    /\ StrLower(StrStrip(cur.nam)) \in DOMAIN cache_name)
             => /\ res'["cmc"].found
                /\ pc' = "rows"
                /\ calls' = calls
                /\ rows_out' = rows_out
                /\ calls[Len(calls)] = "cmc"]_vars

\* a find answered from the name cache, after its symbol lookup found
\* nothing and left the symbol cache as it was
C16_Witness ==
    /\ "cmc" \in DOMAIN res
    /\ res["cmc"].method = "name_fuzzy"
    /\ Ev("cmc_map_symbol") \in Range(net)
    /\ Ev("cmc_map_all") \notin Range(net)
    /\ CurCmcKey \notin DOMAIN cache_symbol
    /\ calls = <<"cg", "cmc">>
    /\ pc = "rows"

\* a find answered from the symbol cache
C16_WitnessSymbol ==
    /\ "cmc" \in DOMAIN res
    /\ res["cmc"].method = "symbol"
    /\ CurCmcKey \in DOMAIN cache_symbol
    /\ Ev("cmc_map_symbol") \notin Range(net)
    /\ calls = <<"cg", "cmc">>
    /\ pc = "rows"

\* some item of the page has the ticker of the row
TickerHit(items) ==
    \E i \in 1..Len(items) :
        normalize_text(items[i].ticker) = normalize_text(cur.sym)

\* the similarity of the row's name to the name of item i of the page
NameScore(items, i) ==
    similar(normalize_text(cur.nam), normalize_text(items[i].name))

\* the best name similarity of the page is at least 0.88
FuzzyHit(items) ==
    /\ normalize_text(cur.nam) # <<>>
    /\ \E i \in 1..Len(items) : RatioAtLeastPct(NameScore(items, i), 88)

PageQualifies(items) == TickerHit(items) \/ FuzzyHit(items)

\* C17: the find has gone past a page only if the page did not qualify,
\* and it reports found exactly when the last page it scanned qualifies:
\* the match comes from the lowest-numbered qualifying page, whatever any
\* later page would hold. On that page the first item with the exact
\* ticker is returned as "symbol_exact" if there is one, also when an
\* earlier item of the page has a name similar enough; otherwise the
\* first item with the greatest name similarity is returned as
\* "name_fuzzy"
C17_LowestQualifyingPage ==
    LET n == Len(fd_seen)
        returned == "fdi" \in DOMAIN res
    IN  /\ \A k \in 1..n :
              PageQualifies(fd_seen[k]) <=> (k = n /\ returned /\ res["fdi"].found)
        /\ pc = "fdi_page" => (~returned /\ page = n + 1)
        /\ (returned /\ res["fdi"].found) =>
              /\ n >= 1
              /\ LET items == fd_seen[n]
                     first == CHOOSE i \in 1..Len(items) :
                         IF TickerHit(items)
                         THEN /\ normalize_text(items[i].ticker)
                                    = normalize_text(cur.sym)
                              /\ \A j \in 1..(i - 1) :
                                    normalize_text(items[j].ticker)
                                        # normalize_text(cur.sym)
                         ELSE /\ \A j \in 1..Len(items) :
                                    ~RatioGT(NameScore(items, j),
                                             NameScore(items, i))
                              /\ \A j \in 1..(i - 1) :
                                    RatioGT(NameScore(items, i),
                                            NameScore(items, j))
                 IN  /\ res["fdi"].id = items[first].id
                     /\ res["fdi"].method =
                           (IF TickerHit(items) THEN "symbol_exact"
                            ELSE "name_fuzzy")

\* page 1 did not qualify and page 2 gave a fuzzy name match
C17_Witness ==
    /\ Len(fd_seen) = 2
    /\ ~PageQualifies(fd_seen[1])
    /\ "fdi" \in DOMAIN res
    /\ res["fdi"].method = "name_fuzzy"

\* a fuzzy name match on page 1 was returned although a second page was
\* allowed
C17_WitnessEarlyFuzzy ==
    /\ Len(fd_seen) = 1
    /\ args.foundico_max_pages >= 2
    /\ "fdi" \in DOMAIN res
    /\ res["fdi"].method = "name_fuzzy"

\* the exact ticker won on a page whose earlier item has a name similar
\* enough
C17_WitnessTickerFirst ==
    /\ fd_seen # <<>>
    /\ "fdi" \in DOMAIN res
    /\ res["fdi"].method = "symbol_exact"
    /\ FuzzyHit(fd_seen[Len(fd_seen)])
    /\ res["fdi"].id = I_ab.id

====
